---- MODULE Spec2Model ----
(***************************************************************************)
(* Pyramid discovery and tile addressing of the TIFF and OME-TIFF tile     *)
(* sources (server/tilesource/tiff.py, server/tilesource/ometiff.py).      *)
(*                                                                         *)
(* A file is a list of raw directories plus, for OME files, the image      *)
(* metadata.  Construction turns a file into a source (the pyramid table,  *)
(* the per-frame table, the canonical geometry); getTile maps a request    *)
(* (x, y, z, frame, sparseFallback) to a tile or to an error and, on a     *)
(* frame-indexed source, updates the directory cache.                      *)
(*                                                                         *)
(* Python conventions kept by the model: directory numbers and levels are  *)
(* 0-based; list[z] with a negative z indexes from the end.  The sources   *)
(* run under Python 2 and Python 3 (six): x / 2 of two integers is the     *)
(* floor division under the one and the true division under the other.     *)
(***************************************************************************)
EXTENDS Integers, Sequences, FiniteSets, TLC

VARIABLES
    python,    \* the major version of the interpreter that runs the sources
    file,      \* the file on disk: raw directories and OME metadata
    ioFail,    \* directory numbers whose tile reads raise IOTiffException
    src,       \* the constructed source (or the construction error)
    cache,     \* _directoryCache: directory number -> open handle
    pre,       \* _directoryCache as it was when the last call started
    req,       \* the last getTile request
    res,       \* what the last getTile call returned or raised
    threads    \* concurrent callers inside OMETiffFileTileSource.getTile

vars == <<python, file, ioFail, src, cache, pre, req, res, threads>>

(***************************************************************************)
(* Bounds of the model.                                                    *)
(***************************************************************************)
MaxLog == 6          \* |log2| of the size ratios the level formula handles
MaxDirs == 3         \* directories per generated TIFF file
MaxCoord == 1        \* tile coordinates x, y requested are 0..MaxCoord
MaxFrame == 2        \* frame arguments requested are -1..MaxFrame
CacheLevels == 5     \* levels of the OME file used for the cache runs
CacheFrames == 6     \* frames of the OME file used for the cache runs

(***************************************************************************)
(* Python values.                                                          *)
(***************************************************************************)
NoDir == 0 - 1                    \* None in _tiffDirectories
NoEntry == <<>>                   \* None in _omeLevels
NoFrame == <<>>                   \* kwargs.get('frame') is None
Frame(n) == <<n>>                 \* kwargs['frame'] = n
PIL == TRUE                       \* the PIL import succeeded
Pythons == {2, 3}                 \* the interpreters the sources run under

Max(a, b) == IF a >= b THEN a ELSE b
Abs(a) == IF a >= 0 THEN a ELSE 0 - a

RECURSIVE Pow2(_)
Pow2(n) == IF n <= 0 THEN 1 ELSE 2 * Pow2(n - 1)

(***************************************************************************)
(* Numbers.  A tile coordinate is an integer in a request and, under       *)
(* Python 3, a float once it has been divided: a number is <<n, d>>, the   *)
(* fraction n / d in lowest terms with d a power of two, and <<n, 1>> is   *)
(* the integer n (1.0 == 1 in Python).                                     *)
(***************************************************************************)
Whole(n) == <<n, 1>>

RECURSIVE Reduced(_, _)
Reduced(n, d) ==
    IF d > 1 /\ n % 2 = 0 THEN Reduced(n \div 2, d \div 2) ELSE <<n, d>>

\* x / 2: the floor division of an integer under Python 2, the true division
\* otherwise
Halved(x) ==
    IF python = 2 /\ x[2] = 1 THEN <<x[1] \div 2, 1>>
    ELSE Reduced(x[1], 2 * x[2])

\* "if x % 2": true unless x is an even integer
IsOdd(x) == x[2] > 1 \/ x[1] % 2 # 0

\* x * scale + newX
Scaled(x, scale, newX) == Reduced(x[1] * scale + newX * x[2], x[2])

\* list[z] of Python: z in [-len, len) is a valid index
PyIndexOk(list, z) == z >= 0 - Len(list) /\ z < Len(list)
PyIndex(list, z) == IF z >= 0 THEN list[z + 1] ELSE list[Len(list) + z + 1]

\* p/q <= 2^k, for p >= 0, q > 0 and any integer k
LeqPow2(p, q, k) == IF k >= 0 THEN p <= Pow2(k) * q ELSE p * Pow2(0 - k) <= q

\* int(math.ceil(math.log(p/q) / math.log(2))) for p, q > 0
CeilLog2(p, q) ==
    CHOOSE k \in (0 - MaxLog)..MaxLog : LeqPow2(p, q, k) /\ ~LeqPow2(p, q, k - 1)

\* the level of a directory: ceil(log2(max(width/tileWidth, height/tileHeight)))
LevelOf(imageWidth, imageHeight, tileWidth, tileHeight) ==
    Max(CeilLog2(imageWidth, tileWidth), CeilLog2(imageHeight, tileHeight))

(***************************************************************************)
(* nearPowerOfTwo (tilesource/base.py): the two sizes differ by a power of *)
(* two, with one pixel of slack; false when either is not positive.        *)
(***************************************************************************)
nearPowerOfTwo(val1, val2) ==
    /\ val1 > 0
    /\ val2 > 0
    /\ \E k \in 0..MaxLog :
          \/ Abs(val1 * Pow2(k) - val2) <= Pow2(k)
          \/ Abs(val2 * Pow2(k) - val1) <= Pow2(k)

(***************************************************************************)
(* The decode backend (tiff_reader.TiledTiffDirectory).                    *)
(* A raw directory is [st, tileWidth, tileHeight, imageWidth, imageHeight, *)
(* described, description]; st is "tiled", "nottiled" (the constructor     *)
(* raises ValidationTiffException) or "unreadable" (it raises another      *)
(* TiffException, as it does past the last directory); description is the  *)
(* imagedescription tag when the directory has one.                        *)
(***************************************************************************)
TiledTiffDirectory(f, directoryNum) ==
    IF directoryNum < 0 \/ directoryNum >= Len(f.dirs) THEN "TiffException"
    ELSE LET d == f.dirs[directoryNum + 1] IN
         CASE d.st = "tiled" -> "ok"
           [] d.st = "nottiled" -> "ValidationTiffException"
           [] OTHER -> "TiffException"

Dir(f, directoryNum) == f.dirs[directoryNum + 1]

Range(seq) == {seq[i] : i \in 1..Len(seq)}

(***************************************************************************)
(* Strings.  A character is its Unicode code point.  A string is a text    *)
(* (unicode, str of Python 3) or the UTF-8 bytes of one (str of Python 2,  *)
(* bytes): [type, chars], chars being the characters in both cases.  The   *)
(* reader returns an image description of either type; strip, split and    *)
(* lower are the methods of that type and return it, and those of bytes    *)
(* see white space and letters in ASCII only.  Chars are the characters    *)
(* whose classes are tabulated here, all of them with a lower case of one  *)
(* character; the model says nothing of a text with another one.           *)
(***************************************************************************)
Text(chars) == [type |-> "text", chars |-> chars]
Bytes(chars) == [type |-> "bytes", chars |-> chars]
Rest(s) == [s EXCEPT !.chars = Tail(@)]

Chars ==
    (0..255) \cup (1024..1119) \cup (1632..1641) \cup (65313..65338)
    \cup (65345..65370) \cup {775, 8195, 8232, 12288}
Char(ch) == CASE ch \in Chars -> ch

\* bytes.isspace() and unicode.isspace() on one character
AsciiSpace == (9..13) \cup {32}
UnicodeSpace == (9..13) \cup (28..32) \cup {133, 160, 8195, 8232, 12288}
IsSpace(type, ch) ==
    IF type = "bytes" THEN ch \in AsciiSpace ELSE Char(ch) \in UnicodeSpace

\* the upper-case letters by the distance to their lower case
AsciiUpper == 65..90
UpperBy32 ==
    (65..90) \cup (192..214) \cup (216..222) \cup (1040..1071) \cup (65313..65338)
UpperBy80 == 1024..1039

\* lower() on one character and on a string
LowerChar(type, ch) ==
    IF type = "bytes"
    THEN IF ch \in AsciiUpper THEN ch + 32 ELSE ch
    ELSE CASE ch \in UpperBy32 -> ch + 32
           [] ch \in UpperBy80 -> ch + 80
           [] OTHER -> Char(ch)
RECURSIVE Lower(_)
Lower(s) ==
    IF s.chars = <<>> THEN s
    ELSE [s EXCEPT !.chars = <<LowerChar(s.type, s.chars[1])>> \o Lower(Rest(s)).chars]

\* the letters, digits and numbers of Chars
Alnum ==
    (48..57) \cup (65..90) \cup (97..122) \cup {170, 178, 179, 181, 185, 186}
    \cup (188..190) \cup (192..214) \cup (216..246) \cup (248..255)
    \cup (1024..1119) \cup (1632..1641) \cup (65313..65338) \cup (65345..65370)

\* "if not isinstance(id, six.text_type): id = id.decode('utf8')"
Decode(s) == Text(s.chars)

\* unicode.isalnum(): not empty, letters and digits only
IsAlnum(s) ==
    /\ s.type = "text"
    /\ Len(s.chars) > 0
    /\ \A i \in 1..Len(s.chars) : Char(s.chars[i]) \in Alnum

\* s.strip().split(None, 1), of which the code takes the first word: no word
\* at all when s is white space only
RECURSIVE SkipSpaces(_)
SkipSpaces(s) ==
    IF s.chars # <<>> /\ IsSpace(s.type, s.chars[1]) THEN SkipSpaces(Rest(s)) ELSE s
RECURSIVE TakeWord(_)
TakeWord(s) ==
    IF s.chars = <<>> \/ IsSpace(s.type, s.chars[1]) THEN [s EXCEPT !.chars = <<>>]
    ELSE [s EXCEPT !.chars = <<s.chars[1]>> \o TakeWord(Rest(s)).chars]
Words(s) == IF SkipSpaces(s).chars = <<>> THEN <<>> ELSE <<TakeWord(SkipSpaces(s))>>

(***************************************************************************)
(* TiffFileTileSource.__init__                                             *)
(***************************************************************************)
Failed(k, msg) ==
    [ok |-> FALSE, error |-> msg, kind |-> k, tiffDirectories |-> <<>>,
     omeLevels |-> <<>>, frameCount |-> 0, directoryCacheMaxSize |-> 0,
     tileWidth |-> 0, tileHeight |-> 0, levels |-> 0, sizeX |-> 0, sizeY |-> 0,
     associatedImages |-> <<>>]

\* the largest width and height of an associated image
AssociatedMaxSize == 8192

\* _addAssociatedImage: the directory is opened without validation; its image
\* is stored under its id, the first word of the image description in lower
\* case and as a text, when the id is alphanumeric and of 4 to 20 characters
\* and the image is no larger than AssociatedMaxSize.  A stored image
\* replaces the one stored under the same id; every failure (no description:
\* AttributeError, no word: IndexError) is swallowed.  The ids of
\* _associatedImages are kept as their characters.
addAssociatedImage(f, directoryNum, associated) ==
    LET d == Dir(f, directoryNum) IN
    IF ~d.described \/ Words(d.description) = <<>> THEN associated
    ELSE LET id == Decode(Lower(Words(d.description)[1])) IN
         IF /\ IsAlnum(id)
            /\ Len(id.chars) > 3
            /\ Len(id.chars) <= 20
            /\ d.imageWidth <= AssociatedMaxSize
            /\ d.imageHeight <= AssociatedMaxSize
         THEN (id.chars :> directoryNum) @@ associated
         ELSE associated

\* the enumeration loop: directories from directoryNum on, until one raises a
\* TiffException that is not a validation error
SkipsNoDirectory(o) == FALSE

\* "except ValidationTiffException: ... continue", tried before the handler
\* of the other TiffExceptions, which ends the loop
SkipsDirectory(o) == o = "ValidationTiffException"

RECURSIVE Enumerate(_, _, _)
Enumerate(f, directoryNum, acc) ==
    LET o == TiledTiffDirectory(f, directoryNum) IN
    IF SkipsDirectory(o)
    THEN Enumerate(f, directoryNum + 1,
                   [acc EXCEPT !.lastException = o,
                               !.associated = addAssociatedImage(f, directoryNum, @)])
    ELSE IF o # "ok"
    THEN [acc EXCEPT !.lastException = IF @ = "" THEN o ELSE @]
    ELSE LET td == Dir(f, directoryNum) IN
         IF td.tileWidth = 0 \/ td.tileHeight = 0
         THEN Enumerate(f, directoryNum + 1, acc)
         ELSE LET level == LevelOf(td.imageWidth, td.imageHeight,
                                   td.tileWidth, td.tileHeight) IN
              IF level < 0
              THEN Enumerate(f, directoryNum + 1, acc)
              ELSE Enumerate(f, directoryNum + 1,
                     [acc EXCEPT !.alldir = Append(@,
                        <<td.tileWidth * td.tileHeight, level,
                          td.imageWidth * td.imageHeight, directoryNum>>)])

TupleGreater(a, b) ==
    \E i \in 1..4 : a[i] > b[i] /\ \A j \in 1..(i - 1) : a[j] = b[j]

\* tuple comparison of Python on the sort keys (the directory number is unique)
TupleLess(a, b) ==
    \E i \in 1..4 : a[i] < b[i] /\ \A j \in 1..(i - 1) : a[j] = b[j]

\* alldir.sort()
RECURSIVE SortTuples(_)
SortTuples(S) ==
    IF S = {} THEN <<>>
    ELSE LET m == CHOOSE a \in S : \A b \in S \ {a} : TupleLess(a, b)
         IN <<m>> \o SortTuples(S \ {m})

Alldir(f) ==
    SortTuples(Range(Enumerate(f, 0, [alldir |-> <<>>, lastException |-> "",
                                      associated |-> <<>>]).alldir))

\* highest = alldir[-1][-1], as a directory number
Highest(f) == Alldir(f)[Len(Alldir(f))][4]

AcceptedNearOnly(f, tdir) ==
    LET td == Dir(f, tdir[4])
        highest == Dir(f, Highest(f))
    IN /\ ~(td.tileWidth # highest.tileWidth \/ td.tileHeight # highest.tileHeight)
       /\ nearPowerOfTwo(td.imageWidth, highest.imageWidth)
       /\ nearPowerOfTwo(td.imageHeight, highest.imageHeight)

\* the tests that keep a directory of alldir in the pyramid
Accepted(f, tdir) ==
    LET td == Dir(f, tdir[4])
        highest == Dir(f, Highest(f))
    IN /\ ~(td.tileWidth # highest.tileWidth \/ td.tileHeight # highest.tileHeight)
       /\ ~(\/ /\ td.imageWidth % td.tileWidth # 0
               /\ ~nearPowerOfTwo(td.imageWidth, highest.imageWidth)
            \/ /\ td.imageHeight % td.tileHeight # 0
               /\ ~nearPowerOfTwo(td.imageHeight, highest.imageHeight))

\* the loop "for tdir in alldir: ... directories[level] = td": a later entry
\* of the sorted list replaces an earlier one of the same level
RECURSIVE Directories(_, _, _, _)
Directories(f, alldir, i, directories) ==
    IF i > Len(alldir) THEN directories
    ELSE IF Accepted(f, alldir[i])
         THEN Directories(f, alldir, i + 1,
                 [l \in DOMAIN directories \cup {alldir[i][2]} |->
                     IF l = alldir[i][2] THEN alldir[i][4] ELSE directories[l]])
         ELSE Directories(f, alldir, i + 1, directories)

MaxOf(S) == CHOOSE m \in S : \A n \in S : n <= m
MinOf(S) == CHOOSE m \in S : \A n \in S : m <= n

TooFewLevelsAtAnyDepth(keys) == Cardinality(keys) < 2

\* len(directories) < 2 and max(directories.keys()) + 1 > 4
TooFewLevels(keys) == Cardinality(keys) < 2 /\ MaxOf(keys) + 1 > 4

TiffInit(f) ==
    LET e == Enumerate(f, 0, [alldir |-> <<>>, lastException |-> "",
                              associated |-> <<>>])
        alldir == Alldir(f)
    IN IF Len(alldir) = 0
       THEN Failed("tiff", "File didn't meet requirements for tile source")
       ELSE LET directories == Directories(f, alldir, 1, <<>>)
                keys == DOMAIN directories
                highest == Dir(f, Highest(f))
            IN IF keys = {} \/ TooFewLevels(keys)
               THEN Failed("tiff", "Tiff image must have at least two levels.")
               ELSE [ok |-> TRUE, error |-> "", kind |-> "tiff",
                     tiffDirectories |->
                        [key \in 1..(MaxOf(keys) + 1) |->
                            IF (key - 1) \in keys THEN directories[key - 1]
                            ELSE NoDir],
                     omeLevels |-> <<>>, frameCount |-> 0,
                     directoryCacheMaxSize |-> 0,
                     tileWidth |-> highest.tileWidth,
                     tileHeight |-> highest.tileHeight,
                     levels |-> MaxOf(keys) + 1,
                     sizeX |-> highest.imageWidth,
                     sizeY |-> highest.imageHeight,
                     associatedImages |-> e.associated]

(***************************************************************************)
(* OMETiffFileTileSource.__init__                                          *)
(* An image of the OME metadata is [SizeX, SizeY, SizeC, SizeT, SizeZ,     *)
(* TiffData, Plane, FileNames]: TiffData is the list of the IFD numbers of *)
(* its frames, Plane is <<>> when the image has no Plane list and <<n>>    *)
(* for a list of n planes, FileNames counts the distinct file names.       *)
(***************************************************************************)
DirectoryCacheMinSize == 20
DirectoryCachePerFrame == 3

AnyFrameCount(entry, n) == TRUE

\* len(entry['Pixels']['TiffData']) == len(self._omebase['TiffData'])
SameFrameCount(entry, n) == Len(entry.TiffData) = n

\* omeimages: the images with as many frames as the first one, in order
RECURSIVE OmeImages(_, _, _)
OmeImages(images, n, i) ==
    IF i > Len(images) THEN <<>>
    ELSE IF SameFrameCount(images[i], n)
         THEN <<images[i]>> \o OmeImages(images, n, i + 1)
         ELSE OmeImages(images, n, i + 1)

OmeLevelOf(entry, base) ==
    Max(0, LevelOf(entry.SizeX, entry.SizeY, base.tileWidth, base.tileHeight))

\* omebylevel = dict(zip(levels, omeimages)): the last image of a level stays
OmeByLevel(omeimages, base, key) ==
    LET at == {i \in 1..Len(omeimages) : OmeLevelOf(omeimages[i], base) = key}
    IN IF at = {} THEN NoEntry ELSE omeimages[MaxOf(at)].TiffData

OmeInit(f) ==
    IF TiledTiffDirectory(f, 0) # "ok"
    THEN Failed("ome", "Not a tiled OME Tiff")
    ELSE IF ~f.hasOME
    THEN Failed("ome", "Not an OME Tiff")
    ELSE IF Len(f.ome) = 0
    THEN Failed("ome", "OME Tiff does not contain an expected record")
    ELSE
    LET base == Dir(f, 0)
        omebase == f.ome[1]
        n == Len(omebase.TiffData)
    IN IF omebase.FileNames > 1
       THEN Failed("ome", "OME Tiff references multiple files")
       ELSE IF \/ n # omebase.SizeC * omebase.SizeT * omebase.SizeZ
               \/ n # (IF omebase.Plane = <<>> THEN n ELSE omebase.Plane[1])
       THEN Failed("ome", "OME Tiff contains frames that contain multiple planes")
       ELSE
       LET omeimages == OmeImages(f.ome, n, 1)
           top == MaxOf({OmeLevelOf(omeimages[i], base) : i \in 1..Len(omeimages)})
           omeLevels == [key \in 1..(top + 1) |-> OmeByLevel(omeimages, base, key - 1)]
           failing == {key \in 1..(top + 1) :
                          /\ omeLevels[key] # NoEntry
                          /\ TiledTiffDirectory(f, omeLevels[key][1]) # "ok"}
       IN IF n = 0
          THEN Failed("ome", "IndexError")
          \* line 134 opens the directory of each level in turn and lets the
          \* exception of the first that does not open through
          ELSE IF failing # {}
          THEN Failed("ome", TiledTiffDirectory(f, omeLevels[MinOf(failing)][1]))
          ELSE [ok |-> TRUE, error |-> "", kind |-> "ome",
                tiffDirectories |->
                    [key \in 1..(top + 1) |->
                        IF omeLevels[key] # NoEntry THEN omeLevels[key][1]
                        ELSE NoDir],
                omeLevels |-> SubSeq(omeLevels, 1, top + 1),
                frameCount |-> n,
                directoryCacheMaxSize |->
                    Max(DirectoryCacheMinSize, n * DirectoryCachePerFrame),
                tileWidth |-> base.tileWidth,
                tileHeight |-> base.tileHeight,
                levels |-> top + 1,
                sizeX |-> base.imageWidth,
                sizeY |-> base.imageHeight,
                associatedImages |-> <<>>]

\* opening a file with the class its kind names
Construct(f) == IF f.kind = "ome" THEN OmeInit(f) ELSE TiffInit(f)

(***************************************************************************)
(* Tiles and errors.  A tile records where its pixels come from: a raw     *)
(* tile of a directory, a reconstruction from the tiles of a populated     *)
(* level, or the upscaled quadrant of the tile of the level below.         *)
(* What a call gives is [out, cache, calls, depth]: the tile or the error, *)
(* the directory cache it leaves, the number of backend Handle.getTile     *)
(* calls it issued (those that raised included) and the depth of the       *)
(* self.getTile calls nested in it.                                        *)
(***************************************************************************)
Raw(dir, x, y) == [t |-> "raw", dir |-> dir, x |-> x, y |-> y]
Recon(z, scale, subs) == [t |-> "recon", z |-> z, scale |-> scale, subs |-> subs]
Up(image, qx, qy) == [t |-> "up", of |-> image, qx |-> qx, qy |-> qy]

Raise(exc, msg, arg, c) ==
    [out |-> [ok |-> FALSE, exc |-> exc, msg |-> msg, arg |-> arg], cache |-> c,
     calls |-> 0, depth |-> 0]

\* r, reached after n backend calls and nested calls of depth d
After(n, d, r) == [r EXCEPT !.calls = @ + n, !.depth = Max(@, d)]

\* Handle.getTile(x, y) of the backend: a tile outside the directory's grid
\* is an invalid operation, a tile of a damaged directory an I/O error
DirGetTile(dir, x, y) ==
    LET d == Dir(file, dir) IN
    IF \/ x[1] < 0 \/ x[1] * d.tileWidth >= d.imageWidth * x[2]
       \/ y[1] < 0 \/ y[1] * d.tileHeight >= d.imageHeight * y[2]
    THEN "InvalidOperationTiffException"
    ELSE IF dir \in ioFail THEN "IOTiffException"
    ELSE "ok"

\* _outputTile: a PIL image is returned as such only when the caller allows
\* it, and is encoded otherwise
outputTile(tile, format, pilImageAllowed, c) ==
    [out |-> [ok |-> TRUE, tile |-> tile,
              format |-> IF format = "PIL" /\ pilImageAllowed THEN "PIL"
                         ELSE "JPEG"],
     cache |-> c, calls |-> 0, depth |-> 0]

\* len(self._directoryCache) >= self._directoryCacheMaxSize
CacheFullAbove(c) == Cardinality(DOMAIN c) > src.directoryCacheMaxSize
CacheFull(c) == Cardinality(DOMAIN c) >= src.directoryCacheMaxSize

\* lines 193-199 of ometiff.py: the handle of dirnum, from the cache or opened
\* and inserted, the cache being emptied first when it is full
DirectoryCacheGet(c, dirnum) ==
    IF dirnum \in DOMAIN c
    THEN [exc |-> "", dir |-> c[dirnum], cache |-> c]
    ELSE LET c1 == IF CacheFull(c) THEN <<>> ELSE c
             o == TiledTiffDirectory(file, dirnum)
         IN IF o # "ok"
            THEN [exc |-> o, dir |-> NoDir, cache |-> c1]
            ELSE [exc |-> "", dir |-> dirnum, cache |-> c1 @@ (dirnum :> dirnum)]

\* the walk of getTileFromEmptyDirectory up to a populated level
\* "scale *= 2; z += 1" only goes on while the level is unpopulated
RECURSIVE PopulatedAbove(_)
PopulatedAbove(z) ==
    IF PyIndex(src.tiffDirectories, z) = NoDir THEN PopulatedAbove(z + 1) ELSE z

\* the level getTileFromEmptyDirectory takes the tiles from
SameLevel(z) == z
SourceLevel(z) == PopulatedAbove(z)

BeyondMaxNever(tx, ty, z) == FALSE

\* (tx, ty) >= (maxX, maxY) at level z, with
\* maxX = 2.0 ** (z + 1 - levels) * sizeX / tileWidth
BeyondMax(tx, ty, z) ==
    \/ tx[1] * src.tileWidth * Pow2(src.levels - 1 - z) >= src.sizeX * tx[2]
    \/ ty[1] * src.tileHeight * Pow2(src.levels - 1 - z) >= src.sizeY * ty[2]

\* "sparseFallback and z and PIL" of getTileIOTiffException
CanFallBackAlways(sparseFallback, z) == sparseFallback /\ PIL
CanFallBack(sparseFallback, z) == sparseFallback /\ z # 0 /\ PIL

\* "if sparseFallback: raise IOTiffException('Missing z level %d' % z)"
MissingLevelRaisesAlways(sparseFallback) == TRUE
MissingLevelRaises(sparseFallback) == sparseFallback

\* kwargs.get('frame') in (None, 0, '0', '')
FrameIsDefaultNoneOnly(frame) == frame = NoFrame
FrameIsDefault(frame) == frame \in {NoFrame, Frame(0)}

RECURSIVE getTile(_, _, _, _, _, _, _)
RECURSIVE TiffGetTile(_, _, _, _, _, _, _)
RECURSIVE OmeGetTile(_, _, _, _, _, _, _)
RECURSIVE getTileIOTiffException(_, _, _, _, _, _, _, _)
RECURSIVE getTileFromEmptyDirectory(_, _, _, _, _)
RECURSIVE SubTiles(_, _, _, _, _, _, _, _)
RECURSIVE Paste(_, _, _, _, _, _, _, _)

\* a call that raised propagates; a tile goes on to what the caller does
Propagate(r) == r

\* the loops over newX, newY of getTileFromEmptyDirectory; i counts the pairs
\* in the order of the loops
SubTiles(c, x, y, z, scale, i, subs, frame) ==
    IF i >= scale * scale
    THEN [out |-> [ok |-> TRUE, tile |-> Recon(z, scale, subs), format |-> "PIL"],
          cache |-> c, calls |-> 0, depth |-> 0]
    ELSE LET newX == i \div scale
             newY == i % scale
         IN IF (newX # 0 \/ newY # 0)
               /\ BeyondMax(Scaled(x, scale, newX), Scaled(y, scale, newY), z)
            THEN SubTiles(c, x, y, z, scale, i + 1, subs, frame)
            ELSE Paste(getTile(c, Scaled(x, scale, newX), Scaled(y, scale, newY),
                               z, TRUE, TRUE, frame),
                       x, y, z, scale, i, subs, frame)

\* tile.paste(subtile, ...) and the rest of the loops, or the error of the
\* nested call
Paste(r, x, y, z, scale, i, subs, frame) ==
    IF ~r.out.ok THEN Propagate(r)
    ELSE After(r.calls, r.depth,
               SubTiles(r.cache, x, y, z, scale, i + 1,
                        Append(subs, <<i \div scale, i % scale, r.out.tile>>),
                        frame))

getTileFromEmptyDirectory(c, x, y, z, frame) ==
    LET z1 == SourceLevel(z)
    IN SubTiles(c, x, y, z1, Pow2(z1 - z), 0, <<>>, frame)

\* the quadrant image.crop(...) takes: the right or lower half "if x % 2"
Quadrant(x) == IF IsOdd(x) THEN 1 ELSE 0

\* image.crop(...).resize(...) of the tile of level z - 1
CropResize(r, x, y, pilImageAllowed) ==
    IF ~r.out.ok THEN Propagate(r)
    ELSE After(r.calls, r.depth,
               outputTile(Up(r.out.tile, Quadrant(x), Quadrant(y)), "PIL",
                          pilImageAllowed, r.cache))

getTileIOTiffException(c, x, y, z, pilImageAllowed, sparseFallback, e, frame) ==
    IF CanFallBack(sparseFallback, z)
    THEN CropResize(getTile(c, Halved(x), Halved(y), z - 1, TRUE, sparseFallback,
                            frame),
                    x, y, pilImageAllowed)
    ELSE Raise("TileSourceException", "Internal I/O failure", e, c)

\* the tile of getTileFromEmptyDirectory goes through _outputTile
OutputReconstructed(r, pilImageAllowed) ==
    IF ~r.out.ok THEN Propagate(r)
    ELSE After(r.calls, r.depth,
               outputTile(r.out.tile, "PIL", pilImageAllowed, r.cache))

\* TiffFileTileSource.getTile
TiffGetTile(c, x, y, z, pilImageAllowed, sparseFallback, frame) ==
    IF ~PyIndexOk(src.tiffDirectories, z)
    THEN Raise("TileSourceException", "z layer does not exist", "", c)
    ELSE IF PyIndex(src.tiffDirectories, z) = NoDir
    THEN IF MissingLevelRaises(sparseFallback)
         THEN getTileIOTiffException(c, x, y, z, pilImageAllowed, sparseFallback,
                                     "Missing z level", frame)
         ELSE OutputReconstructed(getTileFromEmptyDirectory(c, x, y, z, frame),
                                  pilImageAllowed)
    ELSE LET dir == PyIndex(src.tiffDirectories, z)
             t == DirGetTile(dir, x, y)
         IN After(1, 0,
               CASE t = "ok" -> outputTile(Raw(dir, x, y), "JPEG", pilImageAllowed, c)
                 [] t = "InvalidOperationTiffException" ->
                       Raise("TileSourceException", "x or y is outside layer", "", c)
                 [] OTHER ->
                       getTileIOTiffException(c, x, y, z, pilImageAllowed,
                                              sparseFallback, "read failed", frame))

\* OMETiffFileTileSource.getTile
OmeGetTile(c, x, y, z, pilImageAllowed, sparseFallback, frame) ==
    IF \/ z < 0
       \/ z >= Len(src.omeLevels)
       \/ src.omeLevels[z + 1] = NoEntry
       \/ FrameIsDefault(frame)
    THEN TiffGetTile(c, x, y, z, pilImageAllowed, sparseFallback, frame)
    ELSE IF frame[1] < 0 \/ frame[1] >= src.frameCount
    THEN Raise("TileSourceException", "Frame does not exist", "", c)
    ELSE LET dirnum == src.omeLevels[z + 1][frame[1] + 1]
             got == DirectoryCacheGet(c, dirnum)
         IN IF got.exc # ""
            THEN Raise(got.exc, "could not open directory", "", got.cache)
            ELSE LET t == DirGetTile(got.dir, x, y)
                 IN After(1, 0,
                       CASE t = "ok" ->
                              outputTile(Raw(got.dir, x, y), "JPEG",
                                         pilImageAllowed, got.cache)
                         [] t = "InvalidOperationTiffException" ->
                              Raise("TileSourceException",
                                    "x or y is outside layer", "", got.cache)
                         [] OTHER ->
                              getTileIOTiffException(got.cache, x, y, z,
                                                     pilImageAllowed,
                                                     sparseFallback,
                                                     "read failed", frame))

\* self.getTile: the method of the class of the source; one more call on the
\* chain of nested calls
getTile(c, x, y, z, pilImageAllowed, sparseFallback, frame) ==
    LET r == IF src.kind = "ome"
             THEN OmeGetTile(c, x, y, z, pilImageAllowed, sparseFallback, frame)
             ELSE TiffGetTile(c, x, y, z, pilImageAllowed, sparseFallback, frame)
    IN [r EXCEPT !.depth = @ + 1]

(***************************************************************************)
(* Files.                                                                  *)
(***************************************************************************)
Tiled(tileWidth, tileHeight, imageWidth, imageHeight) ==
    [st |-> "tiled", tileWidth |-> tileWidth, tileHeight |-> tileHeight,
     imageWidth |-> imageWidth, imageHeight |-> imageHeight,
     described |-> FALSE, description |-> Text(<<>>)]
NotTiled(description) ==
    [st |-> "nottiled", tileWidth |-> 0, tileHeight |-> 0,
     imageWidth |-> 4, imageHeight |-> 4,
     described |-> TRUE, description |-> description]
Undescribed ==
    [st |-> "nottiled", tileWidth |-> 0, tileHeight |-> 0,
     imageWidth |-> 4, imageHeight |-> 4,
     described |-> FALSE, description |-> Text(<<>>)]
Unreadable ==
    [st |-> "unreadable", tileWidth |-> 0, tileHeight |-> 0,
     imageWidth |-> 0, imageHeight |-> 0,
     described |-> FALSE, description |-> Text(<<>>)]

\* the image descriptions "Macro x", "macro\ty", "x y", "\u00c9t\u00e9s\u00a0x"
\* (a no-break space after its first word) and "\u00c9t\u00e9s y"
MacroX == <<77, 97, 99, 114, 111, 32, 120>>
MacroY == <<109, 97, 99, 114, 111, 9, 121>>
ShortId == <<120, 32, 121>>
EtesX == <<201, 116, 233, 115, 160, 120>>
EtesY == <<201, 116, 233, 115, 32, 121>>

Image(SizeX, SizeY, SizeC, SizeT, SizeZ, TiffData, Plane, FileNames) ==
    [SizeX |-> SizeX, SizeY |-> SizeY, SizeC |-> SizeC, SizeT |-> SizeT,
     SizeZ |-> SizeZ, TiffData |-> TiffData, Plane |-> Plane,
     FileNames |-> FileNames]

TiffFile(dirs) == [kind |-> "tiff", dirs |-> dirs, hasOME |-> FALSE, ome |-> <<>>]
OmeFile(dirs, hasOME, ome) ==
    [kind |-> "ome", dirs |-> dirs, hasOME |-> hasOME, ome |-> ome]

\* the directories the generated TIFF files are made of
DirKinds ==
    {Tiled(2, 2, 8, 8), Tiled(2, 2, 4, 4), Tiled(2, 2, 2, 2), Tiled(2, 2, 7, 7),
     Tiled(2, 2, 3, 5), Tiled(4, 2, 8, 8), Tiled(2, 2, 1, 1), Tiled(0, 2, 8, 8),
     Tiled(2, 2, 32, 32), Tiled(4, 2, 64, 32), Tiled(2, 2, 3, 3),
     Tiled(2, 2, 11, 11), Tiled(2, 2, 12, 12), NotTiled(Text(MacroX)),
     NotTiled(Bytes(MacroY)), NotTiled(Text(ShortId)), NotTiled(Text(EtesX)),
     NotTiled(Bytes(EtesX)), NotTiled(Bytes(EtesY)), Undescribed, Unreadable}

SeqsUpTo(S, n) == UNION {[1..m -> S] : m \in 0..n}

\* the directories and the images the generated OME files are made of
OmeDirs ==
    <<Tiled(2, 2, 8, 8), Tiled(2, 2, 8, 8), Tiled(2, 2, 4, 4), Tiled(2, 2, 4, 4),
      Undescribed, Tiled(2, 2, 2, 2)>>
\* the same with a second frame and a second level of another tile size
OmeDirsMixed ==
    <<Tiled(2, 2, 8, 8), Tiled(4, 2, 8, 8), Tiled(4, 4, 4, 4), Tiled(2, 2, 4, 4),
      Undescribed, Tiled(2, 2, 2, 2)>>
ImageKinds ==
    {Image(8, 8, 2, 1, 1, <<0, 1>>, <<>>, 1),
     Image(4, 4, 2, 1, 1, <<2, 3>>, <<2>>, 1),
     Image(2, 2, 1, 1, 1, <<5>>, <<>>, 1),
     Image(4, 4, 1, 2, 1, <<4, 3>>, <<>>, 1),
     Image(8, 8, 3, 1, 1, <<0, 1>>, <<>>, 1),
     Image(8, 8, 1, 1, 2, <<0, 1>>, <<3>>, 1),
     Image(8, 8, 2, 1, 1, <<0, 1>>, <<>>, 2),
     Image(1, 1, 2, 1, 1, <<5, 5>>, <<>>, 1),
     Image(4, 4, 2, 1, 1, <<2, 7>>, <<>>, 1),
     Image(8, 8, 0, 1, 1, <<>>, <<>>, 1)}
MaxImages == 2

BuildFiles ==
    {TiffFile(dirs) : dirs \in SeqsUpTo(DirKinds, MaxDirs)}
    \cup {OmeFile(dirs, h, ome) :
            dirs \in {OmeDirs, <<Undescribed>> \o OmeDirs, OmeDirsMixed},
            h \in BOOLEAN, ome \in SeqsUpTo(ImageKinds, MaxImages)}

\* the files the tile requests are made on
ServeFiles ==
    {TiffFile(<<Tiled(2, 2, 2, 2), Tiled(2, 2, 4, 4), Tiled(2, 2, 8, 8)>>),
     TiffFile(<<Tiled(2, 2, 8, 8), NotTiled(Text(MacroX)), Tiled(2, 2, 2, 2)>>),
     TiffFile(<<Tiled(2, 2, 5, 8)>>),
     TiffFile(<<Tiled(2, 2, 4, 4), Tiled(2, 2, 7, 7)>>),
     OmeFile(<<Tiled(2, 2, 4, 4), Tiled(2, 2, 4, 4), Tiled(2, 2, 2, 2),
               Tiled(2, 2, 2, 2)>>, TRUE,
             <<Image(4, 4, 2, 1, 1, <<0, 1>>, <<>>, 1),
               Image(2, 2, 2, 1, 1, <<2, 3>>, <<>>, 1)>>),
     OmeFile(<<Tiled(2, 2, 8, 8), Tiled(2, 2, 8, 8)>>, TRUE,
             <<Image(8, 8, 1, 1, 2, <<0, 1>>, <<>>, 1)>>),
     OmeFile(<<Tiled(2, 2, 8, 8), Tiled(2, 2, 8, 8), Tiled(2, 2, 4, 4)>>, TRUE,
             <<Image(8, 8, 1, 2, 1, <<0, 1>>, <<>>, 1),
               Image(4, 4, 1, 2, 1, <<2, 5>>, <<>>, 1)>>)}

TiledDirs(f) == {n \in 0..(Len(f.dirs) - 1) : f.dirs[n + 1].st = "tiled"}

(***************************************************************************)
(* State and actions.                                                      *)
(***************************************************************************)
Unopened == Failed("", "not opened")
NoReq == [x |-> 0, y |-> 0, z |-> 0, frame |-> NoFrame, sparseFallback |-> FALSE,
          pilImageAllowed |-> FALSE]
NoRes == [ok |-> FALSE, exc |-> "", msg |-> "no call", arg |-> ""]

Called == res # NoRes

Frames == {NoFrame} \cup {Frame(n) : n \in (0 - 1)..MaxFrame}

\* one getTile call by one caller, from the request to the return
GetTile(x, y, z, pilImageAllowed, sparseFallback, frame) ==
    /\ src.ok
    /\ ~Called
    /\ \E r \in {getTile(cache, Whole(x), Whole(y), z, pilImageAllowed,
                        sparseFallback, frame)} :
          /\ res' = r.out
          /\ cache' = r.cache
    /\ pre' = cache
    /\ req' = [x |-> x, y |-> y, z |-> z, frame |-> frame,
               sparseFallback |-> sparseFallback,
               pilImageAllowed |-> pilImageAllowed]
    /\ UNCHANGED <<python, file, ioFail, src, threads>>

\* the caller takes the result; the source is ready for the next request
Return ==
    /\ Called
    /\ res' = NoRes
    /\ req' = NoReq
    /\ pre' = cache
    /\ UNCHANGED <<python, file, ioFail, src, cache, threads>>

\* opening the file
Open ==
    /\ src = Unopened
    /\ src' = Construct(file)
    /\ UNCHANGED <<python, file, ioFail, cache, pre, req, res, threads>>

Init ==
    /\ python \in Pythons
    /\ file \in ServeFiles
    /\ ioFail \in SUBSET TiledDirs(file)
    /\ src = Construct(file)
    /\ cache = <<>>
    /\ pre = <<>>
    /\ req = NoReq
    /\ res = NoRes
    /\ threads = <<>>

Next ==
    \/ \E x \in 0..MaxCoord, y \in 0..MaxCoord, pilImageAllowed \in BOOLEAN,
          sparseFallback \in BOOLEAN, frame \in Frames,
          z \in (0 - src.levels - 1)..src.levels :
           GetTile(x, y, z, pilImageAllowed, sparseFallback, frame)
    \/ Return

Spec == Init /\ [][Next]_vars

InitBuild ==
    /\ python \in Pythons
    /\ file \in BuildFiles
    /\ ioFail = {}
    /\ src = Unopened
    /\ cache = <<>>
    /\ pre = <<>>
    /\ req = NoReq
    /\ res = NoRes
    /\ threads = <<>>

NextBuild == Open

SpecBuild == InitBuild /\ [][NextBuild]_vars

(***************************************************************************)
(* Properties.                                                             *)
(***************************************************************************)
InLevels(z) == z \in 0..(src.levels - 1)
\* "self._tiffDirectories[z] is None" and its negation, for the z that index
\* the list: z in [-levels, -1] stands for level levels + z
Absent(z) ==
    PyIndexOk(src.tiffDirectories, z) /\ PyIndex(src.tiffDirectories, z) = NoDir
Populated(z) ==
    PyIndexOk(src.tiffDirectories, z) /\ PyIndex(src.tiffDirectories, z) # NoDir

\* (x, y) is a tile of level z of the image of sizeX by sizeY
InLayer(x, y, z) == x >= 0 /\ y >= 0 /\ ~BeyondMax(Whole(x), Whole(y), z)

FrameInRange(frame) ==
    frame = NoFrame \/ (frame[1] >= 0 /\ frame[1] < src.frameCount)

\* the request goes through the per-frame table and the directory cache
FrameIndexed(z, frame) ==
    /\ src.kind = "ome"
    /\ z >= 0
    /\ z < Len(src.omeLevels)
    /\ src.omeLevels[z + 1] # NoEntry
    /\ ~FrameIsDefault(frame)

\* every read of the backend succeeds: no damaged directory, and every
\* directory the per-frame table names opens
BackendSound ==
    /\ ioFail = {}
    /\ \A l \in 1..Len(src.omeLevels) : \A i \in 1..Len(src.omeLevels[l]) :
          TiledTiffDirectory(file, src.omeLevels[l][i]) = "ok"

IsError(r, msg) == ~r.ok /\ r.exc = "TileSourceException" /\ r.msg = msg

\* C1: a request for a level z outside [0, levels), negative levels included,
\* fails with "z layer does not exist" whatever x, y, frame and flags are.
C1_ZLayerDoesNotExist ==
    (Called /\ ~InLevels(req.z)) => IsError(res, "z layer does not exist")

\* C2: in a constructed pyramid the level levels-1 is populated, for a TIFF
\* source by the canonical directory that gives sizeX, sizeY, tileWidth and
\* tileHeight; absent entries are below levels-1 only.
C2_TopLevelPopulated ==
    src.ok =>
        /\ src.levels = Len(src.tiffDirectories)
        /\ src.levels >= 1
        /\ src.tiffDirectories[src.levels] # NoDir
        /\ TiledTiffDirectory(file, src.tiffDirectories[src.levels]) = "ok"
        /\ src.kind = "tiff" =>
              /\ src.tiffDirectories[src.levels] = Highest(file)
              /\ LET td == Dir(file, src.tiffDirectories[src.levels])
                 IN /\ src.sizeX = td.imageWidth
                    /\ src.sizeY = td.imageHeight
                    /\ src.tileWidth = td.tileWidth
                    /\ src.tileHeight = td.tileHeight
        /\ src.kind = "ome" => src.omeLevels[src.levels] # NoEntry

\* a sparse pyramid was constructed: some level below the top is absent
C2_Witness ==
    /\ src.ok
    /\ src.kind = "tiff"
    /\ src.levels >= 3
    /\ \E z \in 0..(src.levels - 2) : Absent(z)
    /\ \E z \in 0..(src.levels - 2) : Populated(z)

\* C3: on a frame-indexed source a request at a level in [0, levels) with a
\* frame outside [0, frameCount) fails with "Frame does not exist", at
\* populated and absent levels and for either sparse-fallback flag.
C3_FrameDoesNotExist ==
    (/\ Called
     /\ src.kind = "ome"
     /\ InLevels(req.z)
     /\ ~FrameInRange(req.frame))
    => IsError(res, "Frame does not exist")

\* C4: on a frame-indexed source a request with frame 0 and the same request
\* with no frame read the level's frame-0 directory of the single-pyramid
\* table, leave the directory cache alone and have the same outcome.
C4_FrameZeroIsFrameless ==
    (Called /\ src.kind = "ome" /\ req.frame \in {NoFrame, Frame(0)}) =>
        /\ cache = pre
        /\ \A frame \in {NoFrame, Frame(0)} :
              LET r == getTile(pre, Whole(req.x), Whole(req.y), req.z,
                               req.pilImageAllowed, req.sparseFallback, frame)
              IN r.out = res /\ r.cache = pre
        /\ (res.ok /\ res.tile.t = "raw") =>
              /\ res.tile.dir = PyIndex(src.tiffDirectories, req.z)
              /\ req.z >= 0 => res.tile.dir = src.omeLevels[req.z + 1][1]

\* a frame-0 request returned a tile of a level that has other frames, after
\* earlier requests had put handles into the cache
C4_Witness ==
    /\ Called
    /\ src.kind = "ome"
    /\ req.frame = Frame(0)
    /\ Populated(req.z)
    /\ res.ok
    /\ DOMAIN pre # {}

\* the directory a request at a populated level reads its tile from
DirRead(z, frame) ==
    IF FrameIndexed(z, frame) /\ FrameInRange(frame)
    THEN src.omeLevels[z + 1][frame[1] + 1]
    ELSE PyIndex(src.tiffDirectories, z)

\* the last request was for a tile of a populated level and the backend
\* raised an I/O error on reading it
ReadFailed ==
    /\ Called
    /\ Populated(req.z)
    /\ FrameIndexed(req.z, req.frame) => FrameInRange(req.frame)
    /\ TiledTiffDirectory(file, DirRead(req.z, req.frame)) = "ok"
    /\ DirGetTile(DirRead(req.z, req.frame), Whole(req.x), Whole(req.y))
          = "IOTiffException"

\* C8 as amended: at an absent level of a single-pyramid source, a tile
\* returned with sparseFallback false is a reconstruction from a populated
\* level above; with sparseFallback true the call never reconstructs: a tile
\* it returns is the upscaled quadrant of the tile of level z-1, and at level
\* 0 it fails with "Internal I/O failure".
C8_AbsentLevelByFlag ==
    (Called /\ src.kind = "tiff" /\ InLevels(req.z) /\ Absent(req.z)) =>
        /\ ~req.sparseFallback =>
              (res.ok => /\ res.tile.t = "recon"
                         /\ res.tile.z > req.z
                         /\ Populated(res.tile.z)
                         /\ res.tile.scale = Pow2(res.tile.z - req.z))
        /\ req.sparseFallback =>
              /\ res.ok => res.tile.t = "up"
              /\ req.z = 0 => /\ IsError(res, "Internal I/O failure")
                              /\ res.arg = "Missing z level"

\* an absent level above level 0 was requested with sparseFallback true and
\* the tile came from the level below
C8_Witness ==
    /\ Called
    /\ src.kind = "tiff"
    /\ Absent(req.z)
    /\ req.z > 0
    /\ req.sparseFallback
    /\ res.ok
    /\ res.tile.t = "up"
    /\ res.tile.of.t = "raw"

\* C8 as stated: at an absent level of a single-pyramid source the tile is
\* reconstructed when sparse fallback is allowed, and the call fails with
\* "Internal I/O failure" when it is not.
C8_Original ==
    (/\ Called
     /\ src.kind = "tiff"
     /\ InLevels(req.z)
     /\ Absent(req.z)
     /\ InLayer(req.x, req.y, req.z)
     /\ BackendSound)
    => /\ req.sparseFallback => (res.ok /\ res.tile.t = "recon")
       /\ ~req.sparseFallback => IsError(res, "Internal I/O failure")

\* C9 as amended: for an in-range (x, y) at an absent level, with
\* sparseFallback false the call returns a reconstructed tile when the
\* backend reads succeed, at level 0 too; with sparseFallback true it does not
\* reconstruct: it fails with "Internal I/O failure" when no level below is
\* populated (always at level 0), and returns the upscaled tile of a level
\* below otherwise.
C9_AbsentLevelOutcome ==
    (/\ Called
     /\ InLevels(req.z)
     /\ Absent(req.z)
     /\ InLayer(req.x, req.y, req.z)
     /\ FrameInRange(req.frame))
    => /\ (~req.sparseFallback /\ BackendSound) =>
             (res.ok /\ res.tile.t = "recon")
       /\ (req.sparseFallback /\ \A z \in 0..(req.z - 1) : Absent(z)) =>
             IsError(res, "Internal I/O failure")
       /\ (req.sparseFallback /\ BackendSound
           /\ \E z \in 0..(req.z - 1) : Populated(z)) =>
             (res.ok /\ res.tile.t = "up")

\* level 0 is absent and was reconstructed
C9_Witness ==
    /\ Called
    /\ Absent(req.z)
    /\ req.z = 0
    /\ ~req.sparseFallback
    /\ BackendSound
    /\ res.ok
    /\ res.tile.t = "recon"
    /\ res.tile.scale >= 2

\* C9 as stated: for an in-range (x, y) at an absent level and either
\* sparse-fallback flag, the call returns a reconstructed tile when the
\* backend reads succeed.
C9_Original ==
    (/\ Called
     /\ InLevels(req.z)
     /\ Absent(req.z)
     /\ InLayer(req.x, req.y, req.z)
     /\ FrameInRange(req.frame)
     /\ BackendSound)
    => (res.ok /\ res.tile.t \in {"recon"})

\* C10 as amended: when the backend raises an I/O error on the tile of a
\* populated level z, then with sparseFallback true and z > 0 the call
\* fetches the tile of level z-1 (the next lower resolution) with the same
\* flag and returns its upscaled quadrant, or fails with the error of that
\* fetch; in every other case it fails with "Internal I/O failure" wrapping
\* the backend error.
C10_ReadErrorFallback ==
    (ReadFailed /\ InLevels(req.z)) =>
        IF req.sparseFallback /\ req.z > 0
        THEN \E below \in
                {getTile(IF FrameIndexed(req.z, req.frame)
                         THEN DirectoryCacheGet(pre, DirRead(req.z, req.frame)).cache
                         ELSE pre,
                         Halved(Whole(req.x)), Halved(Whole(req.y)), req.z - 1, TRUE,
                         TRUE, req.frame)} :
                /\ cache = below.cache
                /\ below.out.ok =>
                      /\ res.ok
                      /\ res.tile = Up(below.out.tile, req.x % 2, req.y % 2)
                /\ ~below.out.ok => res = below.out
        ELSE /\ IsError(res, "Internal I/O failure")
             /\ res.arg = "read failed"

\* the top level could not be read and the tile came from the level below
C10_Witness ==
    /\ ReadFailed
    /\ InLevels(req.z)
    /\ req.sparseFallback
    /\ req.z = src.levels - 1
    /\ req.z > 0
    /\ res.ok
    /\ res.tile.t = "up"

\* C10 as stated: on an I/O error at a populated level z the call recovers
\* from a populated level above z when sparse fallback is permitted and such
\* a level exists, and fails with "Internal I/O failure" in every other case.
C10_Original ==
    (ReadFailed /\ InLevels(req.z)) =>
        IF req.sparseFallback /\ \E z \in (req.z + 1)..(src.levels - 1) : Populated(z)
        THEN /\ res.ok
             /\ res.tile.t = "recon"
             /\ res.tile.z > req.z
        ELSE IsError(res, "Internal I/O failure")

(***************************************************************************)
(* The directory cache of a frame-indexed source.                          *)
(* The file of these runs has CacheLevels images of CacheFrames frames,    *)
(* the largest first; the last frame of the smallest image names a         *)
(* directory the file does not have.                                       *)
(***************************************************************************)
NumThreads == 2
RaceWindow == 8

CacheDirNum(level, frame) == (CacheLevels - 1 - level) * CacheFrames + frame

CacheFile ==
    OmeFile([n \in 1..(CacheLevels * CacheFrames) |->
                LET level == CacheLevels - 1 - ((n - 1) \div CacheFrames)
                IN Tiled(1, 1, Pow2(level), Pow2(level))],
            TRUE,
            [i \in 1..CacheLevels |->
                LET level == CacheLevels - i
                IN Image(Pow2(level), Pow2(level), CacheFrames, 1, 1,
                         [f \in 1..CacheFrames |->
                             IF level = 0 /\ f = CacheFrames
                             THEN CacheLevels * CacheFrames
                             ELSE CacheDirNum(level, f - 1)],
                         <<>>, 1)])

\* the directory numbers requests can put into the cache
CacheKeys ==
    {src.omeLevels[l][f] : l \in 1..Len(src.omeLevels), f \in 2..src.frameCount}


\* the directory numbers of CacheKeys that open
Openable == {k \in CacheKeys : TiledTiffDirectory(file, k) = "ok"}

\* The requests that miss: the callers step through the directories of the
\* file in the order of their numbers, so that a request is for a directory
\* that is cached, for the least directory above those cached or being
\* fetched (NextFresh), or for a directory another caller is fetching.
NextFresh(c, inFlight) ==
    LET seen == DOMAIN c \cup (inFlight \ {NoDir})
        fresh == {k \in Openable : \A j \in seen : k > j}
    IN IF fresh = {} THEN {} ELSE {MinOf(fresh)}

Wanted(c, inFlight) ==
    NextFresh(c, inFlight) \cup (inFlight \ (DOMAIN c \cup {NoDir}))

InitCache ==
    /\ python \in Pythons
    /\ file = CacheFile
    /\ ioFail = {}
    /\ src = Construct(file)
    /\ cache = <<>>
    /\ pre = <<>>
    /\ req = NoReq
    /\ res = NoRes
    /\ threads = <<>>

\* one caller at a time; the requests of Wanted and those for the directories
\* that do not open
NextCache ==
    \/ \E dirnum \in DOMAIN cache \cup Wanted(cache, {})
                         \cup (CacheKeys \ Openable) :
          \E z \in 0..(src.levels - 1), n \in 1..(src.frameCount - 1) :
             /\ src.omeLevels[z + 1][n + 1] = dirnum
             /\ GetTile(0, 0, z, FALSE, FALSE, Frame(n))
    \/ Return

SpecCache == InitCache /\ [][NextCache]_vars

\* the last request missed a cache that was full
MissedFull ==
    /\ Called
    /\ FrameIndexed(req.z, req.frame)
    /\ FrameInRange(req.frame)
    /\ DirRead(req.z, req.frame) \notin DOMAIN pre
    /\ Cardinality(DOMAIN pre) >= src.directoryCacheMaxSize

\* C5 as amended: with one caller at a time the directory cache never holds
\* more than max(20, 3 * frameCount) entries, and a miss that finds the cache
\* full leaves in it the handle of the requested directory alone when that
\* directory opens, and nothing when it does not.
C5_CacheBounded ==
    src.ok =>
        /\ src.directoryCacheMaxSize = Max(20, 3 * src.frameCount)
        /\ Cardinality(DOMAIN cache) <= src.directoryCacheMaxSize
        /\ \A k \in DOMAIN cache : cache[k] = k
        /\ MissedFull =>
              LET dirnum == DirRead(req.z, req.frame)
              IN IF TiledTiffDirectory(file, dirnum) = "ok"
                 THEN DOMAIN cache = {dirnum}
                 ELSE DOMAIN cache = {} /\ ~res.ok

\* a miss on a full cache emptied it and inserted the one handle
C5_Witness ==
    /\ MissedFull
    /\ Cardinality(DOMAIN pre) = src.directoryCacheMaxSize
    /\ DOMAIN cache = {DirRead(req.z, req.frame)}
    /\ res.ok

\* C5 as stated: the cache never holds more than max(20, 3 * frameCount)
\* entries, and a miss that finds it full leaves exactly one entry in it, the
\* handle of the requested directory.
C5_Original ==
    src.ok =>
        /\ Cardinality(DOMAIN cache) <= src.directoryCacheMaxSize
        /\ MissedFull => DOMAIN cache = {DirRead(req.z, req.frame)}

(***************************************************************************)
(* Concurrent callers of OMETiffFileTileSource.getTile on one source.      *)
(* Nothing in the method takes a lock.  A caller is at one of the lines    *)
(* 193-206; the steps are the reads and writes of self._directoryCache,    *)
(* the opening of a directory and the reading of a tile.  Line 199,        *)
(* self._directoryCache[dirnum] = dir, is two steps: the attribute is      *)
(* loaded and the entry is then stored into the dict that was loaded,      *)
(* which another caller may have replaced in between (stale).  The tests   *)
(* of lines 193, 194 and 196 load the attribute and use it at once; with   *)
(* two callers a switch between the two has the outcome of a switch        *)
(* before or after the line, since a dict loses no key while it is held.   *)
(***************************************************************************)
Threads == 1..NumThreads

Idle ==
    [pc |-> "idle", z |-> 0, frame |-> NoFrame, dirnum |-> NoDir, dir |-> NoDir,
     stale |-> FALSE, out |-> NoRes]

InFlight(t) == {threads[u].dirnum : u \in {v \in Threads \ {t} : threads[v].pc # "idle"}}

\* lines 185-193: a request that is not frame-indexed is handed to
\* TiffFileTileSource.getTile, a frame out of range raises, and the others
\* name directory dirnum and test "dirnum in self._directoryCache"
Call(t, z, frame) ==
    /\ threads[t].pc = "idle"
    /\ threads' = [threads EXCEPT ![t] =
          IF \/ z < 0
             \/ z >= Len(src.omeLevels)
             \/ src.omeLevels[z + 1] = NoEntry
             \/ FrameIsDefault(frame)
          THEN [pc |-> "done", z |-> z, frame |-> frame, dirnum |-> NoDir,
                dir |-> NoDir, stale |-> FALSE,
                out |-> TiffGetTile(cache, Whole(0), Whole(0), z, FALSE, FALSE,
                                    frame).out]
          ELSE IF frame[1] < 0 \/ frame[1] >= src.frameCount
          THEN [pc |-> "done", z |-> z, frame |-> frame, dirnum |-> NoDir,
                dir |-> NoDir, stale |-> FALSE,
                out |-> Raise("TileSourceException", "Frame does not exist", "",
                              cache).out]
          ELSE LET dirnum == src.omeLevels[z + 1][frame[1] + 1]
               IN [pc |-> IF dirnum \in DOMAIN cache THEN "hit" ELSE "miss",
                   z |-> z, frame |-> frame, dirnum |-> dirnum, dir |-> NoDir,
                   stale |-> FALSE, out |-> NoRes]]
    /\ UNCHANGED <<python, file, ioFail, src, cache, pre, req, res>>

\* lines 200-208 for a caller that holds the handle dir: the tile of the
\* handle (the backend reads of these runs raise no I/O error)
ReadTile(dir) ==
    IF DirGetTile(dir, Whole(0), Whole(0)) = "ok"
    THEN outputTile(Raw(dir, Whole(0), Whole(0)), "JPEG", FALSE, cache).out
    ELSE Raise("TileSourceException", "x or y is outside layer", "", cache).out

\* line 194: dir = self._directoryCache[dirnum], a KeyError when the entry
\* has gone since the test
Hit(t) ==
    /\ threads[t].pc = "hit"
    /\ threads' = [threads EXCEPT ![t] =
                      IF threads[t].dirnum \in DOMAIN cache
                      THEN [@ EXCEPT !.pc = "read",
                                     !.dir = cache[threads[t].dirnum]]
                      ELSE [@ EXCEPT !.pc = "done",
                                     !.out = [ok |-> FALSE, exc |-> "KeyError",
                                              msg |-> "", arg |-> ""]]]
    /\ UNCHANGED <<python, file, ioFail, src, cache, pre, req, res>>

\* line 196: if len(self._directoryCache) >= self._directoryCacheMaxSize
TestFull(t) ==
    /\ threads[t].pc = "miss"
    /\ threads' = [threads EXCEPT ![t].pc =
                      IF CacheFull(cache) THEN "clear" ELSE "open"]
    /\ UNCHANGED <<python, file, ioFail, src, cache, pre, req, res>>

\* line 197: self._directoryCache = {}; a caller that has loaded the
\* attribute for its store holds the dict that was replaced
Clear(t) ==
    /\ threads[t].pc = "clear"
    /\ cache' = <<>>
    /\ threads' = [u \in Threads |->
                      IF u = t THEN [threads[u] EXCEPT !.pc = "open"]
                      ELSE IF threads[u].pc = "store"
                      THEN [threads[u] EXCEPT !.stale = TRUE]
                      ELSE threads[u]]
    /\ UNCHANGED <<python, file, ioFail, src, pre, req, res>>

\* line 198: dir = TiledTiffDirectory(path, dirnum), which raises when the
\* directory does not open
OpenDirectory(t) ==
    /\ threads[t].pc = "open"
    /\ threads' = [threads EXCEPT ![t] =
                      IF TiledTiffDirectory(file, threads[t].dirnum) = "ok"
                      THEN [@ EXCEPT !.pc = "load", !.dir = threads[t].dirnum]
                      ELSE [@ EXCEPT !.pc = "done",
                                     !.out = [ok |-> FALSE,
                                              exc |-> TiledTiffDirectory(
                                                         file, threads[t].dirnum),
                                              msg |-> "could not open directory",
                                              arg |-> ""]]]
    /\ UNCHANGED <<python, file, ioFail, src, cache, pre, req, res>>

\* line 199, first half: self._directoryCache is loaded
LoadCache(t) ==
    /\ threads[t].pc = "load"
    /\ threads' = [threads EXCEPT ![t].pc = "store"]
    /\ UNCHANGED <<python, file, ioFail, src, cache, pre, req, res>>

\* line 199, second half: the entry is stored into the dict that was loaded;
\* the store is lost when that dict is no longer the cache
Store(t) ==
    /\ threads[t].pc = "store"
    /\ cache' = IF threads[t].stale THEN cache
                ELSE (threads[t].dirnum :> threads[t].dir) @@ cache
    /\ threads' = [threads EXCEPT ![t].pc = "read", ![t].stale = FALSE]
    /\ UNCHANGED <<python, file, ioFail, src, pre, req, res>>

\* lines 200-206: the tile is read from the handle the caller holds
Read(t) ==
    /\ threads[t].pc = "read"
    /\ threads' = [threads EXCEPT ![t].pc = "done",
                                  ![t].out = ReadTile(threads[t].dir)]
    /\ UNCHANGED <<python, file, ioFail, src, cache, pre, req, res>>

\* the call returns or raises
Done(t) ==
    /\ threads[t].pc = "done"
    /\ threads' = [threads EXCEPT ![t] = Idle]
    /\ UNCHANGED <<python, file, ioFail, src, cache, pre, req, res>>

InitConc ==
    /\ python \in Pythons
    /\ file = CacheFile
    /\ ioFail = {}
    /\ src = Construct(file)
    /\ cache = <<>>
    /\ pre = <<>>
    /\ req = NoReq
    /\ res = NoRes
    /\ threads = [t \in Threads |-> Idle]

\* the requests a caller makes: those of Wanted, one for the least cached
\* directory, one without frame and one for a frame out of range
Requests(t) ==
    \/ \E dirnum \in (IF DOMAIN cache = {} THEN {} ELSE {MinOf(DOMAIN cache)})
                     \cup Wanted(cache, InFlight(t)) :
          \E z \in 0..(src.levels - 1), n \in 1..(src.frameCount - 1) :
             /\ src.omeLevels[z + 1][n + 1] = dirnum
             /\ Call(t, z, Frame(n))
    \/ Call(t, 0, NoFrame)
    \/ Call(t, 0, Frame(src.frameCount))

\* The runs explored: caller 1 makes requests at any time; every other
\* caller makes a request only while the cache is within RaceWindow entries
\* of its capacity.  A caller inside getTile goes on at any speed.
NearFull(c) == Cardinality(DOMAIN c) + RaceWindow >= src.directoryCacheMaxSize

NextConc ==
    \E t \in Threads :
        \/ (t = 1 \/ NearFull(cache)) /\ Requests(t)
        \/ Hit(t)
        \/ TestFull(t)
        \/ Clear(t)
        \/ OpenDirectory(t)
        \/ LoadCache(t)
        \/ Store(t)
        \/ Read(t)
        \/ Done(t)

SpecConc == InitConc /\ [][NextConc]_vars

\* C6: with several callers inside getTile the size test, the clearing and
\* the insertion of a miss act as one step, so that under every interleaving
\* the directory cache holds at most max(20, 3 * frameCount) entries.
C6_CacheBoundedConcurrent ==
    Cardinality(DOMAIN cache) <= src.directoryCacheMaxSize

\* C7: under every interleaving each call reads its tile from a handle opened
\* on the directory of its own (level, frame), every cache entry of key k is a
\* handle opened on directory k, and a race costs no more than a directory
\* opened more than once.
C7_RaceOnlyReopens ==
    /\ \A k \in DOMAIN cache : cache[k] = k
    /\ \A t \in Threads :
          /\ (threads[t].pc = "done"
              /\ TiledTiffDirectory(file, threads[t].dirnum) = "ok") =>
                 /\ threads[t].out.ok
                 /\ threads[t].out.tile = Raw(threads[t].dirnum, Whole(0), Whole(0))

(***************************************************************************)
(* Backend reads and nesting of the last call.                             *)
(***************************************************************************)
\* the last call made again on the cache it found
LastCall ==
    getTile(pre, Whole(req.x), Whole(req.y), req.z, req.pilImageAllowed,
            req.sparseFallback, req.frame)

\* the backend Handle.getTile calls the last call issued (tiff.py:210,
\* ometiff.py:201), those that raised and those of nested calls included
BackendCalls == LastCall.calls

\* the length of the longest chain of nested self.getTile calls of the last
\* call, the outermost call included
NestingDepth == LastCall.depth

\* C11: a getTile call at a level in [0, levels) issues at most `levels`
\* backend Handle.getTile calls, nested fetches included, whatever levels are
\* absent.
C11_BackendCallsBounded ==
    (Called /\ InLevels(req.z)) => BackendCalls <= src.levels

\* C19: the chain of nested getTile calls of a request for a level in
\* [0, levels), the outermost call included, is at most `levels` deep.
C19_NestingBounded ==
    (Called /\ InLevels(req.z)) => NestingDepth <= src.levels

(***************************************************************************)
(* Construction of a TIFF source.                                          *)
(***************************************************************************)
Opened == src # Unopened

\* the number of the first directory that raises a TiffException other than
\* a validation error: the number of directories when all of them open or
\* fail validation
FirstHardError(f) ==
    MinOf({n \in 0..Len(f.dirs) : TiledTiffDirectory(f, n) = "TiffException"})

\* the directories the enumeration keeps
Usable(f) ==
    {n \in 0..(FirstHardError(f) - 1) :
        /\ TiledTiffDirectory(f, n) = "ok"
        /\ Dir(f, n).tileWidth > 0
        /\ Dir(f, n).tileHeight > 0
        /\ LevelOf(Dir(f, n).imageWidth, Dir(f, n).imageHeight,
                   Dir(f, n).tileWidth, Dir(f, n).tileHeight) >= 0}

Broken(f) == {n \in 0..(Len(f.dirs) - 1) : TiledTiffDirectory(f, n) # "ok"}

\* C12 as amended: a directory that fails validation is skipped and a harder
\* error ends the enumeration, the directories found before it being kept;
\* construction fails for want of directories exactly when no usable tiled
\* directory comes before the first hard error, and a constructed pyramid is
\* made of those directories only.
C12_BrokenDirectoriesTolerated ==
    (Opened /\ file.kind = "tiff") =>
        /\ (Usable(file) = {}) <=>
              (~src.ok /\ src.error = "File didn't meet requirements for tile source")
        /\ src.ok =>
              /\ \A l \in 1..src.levels :
                    src.tiffDirectories[l] # NoDir =>
                        src.tiffDirectories[l] \in Usable(file)
              /\ {src.associatedImages[id] : id \in DOMAIN src.associatedImages}
                    \subseteq
                    {n \in 0..(FirstHardError(file) - 1) :
                        TiledTiffDirectory(file, n) = "ValidationTiffException"}

\* a source was constructed from a file with a directory that fails
\* validation before its tiled directories and an unreadable one after them
C12_Witness ==
    /\ Opened
    /\ file.kind = "tiff"
    /\ src.ok
    /\ Len(file.dirs) = 3
    /\ TiledTiffDirectory(file, 0) = "ValidationTiffException"
    /\ TiledTiffDirectory(file, 2) = "TiffException"

\* C12 as stated: a broken directory anywhere in the file makes the
\* construction fail.
C12_Original ==
    (Opened /\ file.kind = "tiff" /\ Broken(file) # {}) => ~src.ok

\* the entries of alldir that pass the tests of the pyramid loop, and their
\* levels
AcceptedDirs(f) == {tdir \in Range(Alldir(f)) : Accepted(f, tdir)}
AcceptedLevels(f) == {tdir[2] : tdir \in AcceptedDirs(f)}

\* the file has several cataloged directories and none but the canonical one
\* has the canonical tile width and height
MismatchedOnly(f) ==
    /\ Len(Alldir(f)) >= 2
    /\ \A tdir \in Range(Alldir(f)) :
          tdir[4] # Highest(f) =>
             \/ Dir(f, tdir[4]).tileWidth # Dir(f, Highest(f)).tileWidth
             \/ Dir(f, tdir[4]).tileHeight # Dir(f, Highest(f)).tileHeight

\* C13 as amended: construction of a TIFF source fails exactly when no
\* directory is accepted, or fewer than 2 levels are populated while the
\* deduced level count exceeds 4; the canonical directory is always
\* accepted, so a file whose other directories all have mismatched tile
\* geometry fails when the canonical level count exceeds 4 and is
\* constructed as a one-directory pyramid otherwise.
C13_FailsOnTooFewLevels ==
    (Opened /\ file.kind = "tiff") =>
        /\ ~src.ok <=>
              \/ AcceptedDirs(file) = {}
              \/ /\ Cardinality(AcceptedLevels(file)) < 2
                 /\ MaxOf(AcceptedLevels(file)) + 1 > 4
        /\ Len(Alldir(file)) > 0 =>
              \E tdir \in AcceptedDirs(file) : tdir[4] = Highest(file)
        /\ MismatchedOnly(file) =>
              /\ src.ok <=> Alldir(file)[Len(Alldir(file))][2] + 1 <= 4
              /\ src.ok =>
                    \A l \in 1..src.levels :
                       src.tiffDirectories[l] \in {NoDir, Highest(file)}

\* a file whose directories other than the canonical one all have mismatched
\* tile geometry was refused for its level count
C13_Witness ==
    /\ Opened
    /\ file.kind = "tiff"
    /\ MismatchedOnly(file)
    /\ ~src.ok
    /\ src.error = "Tiff image must have at least two levels."

\* C13 as stated: a file whose directories other than the canonical one all
\* have mismatched tile geometry is refused whatever its size and level
\* count.
C13_Original ==
    (Opened /\ file.kind = "tiff" /\ MismatchedOnly(file)) => ~src.ok

(***************************************************************************)
(* Construction of a frame-indexed source.                                 *)
(***************************************************************************)
Product(entry) == entry.SizeC * entry.SizeT * entry.SizeZ

\* C14 as amended: a frame-indexed source is constructed only if the first
\* image has as many per-frame directory references as its SizeC x SizeT x
\* SizeZ; that number is the frame count, and every populated level of the
\* per-frame table is the reference list, of that length, of an image of
\* the metadata: the images with another number of references are left out.
C14_FirstImageFrameCount ==
    (Opened /\ file.kind = "ome" /\ src.ok) =>
        /\ Len(file.ome[1].TiffData) = Product(file.ome[1])
        /\ src.frameCount = Len(file.ome[1].TiffData)
        /\ \A l \in 1..Len(src.omeLevels) :
              src.omeLevels[l] # NoEntry =>
                 /\ Len(src.omeLevels[l]) = src.frameCount
                 /\ \E i \in 1..Len(file.ome) :
                       src.omeLevels[l] = file.ome[i].TiffData

\* a source was constructed from metadata whose second image has another
\* number of references than the first
C14_Witness ==
    /\ Opened
    /\ file.kind = "ome"
    /\ src.ok
    /\ Len(file.ome) = 2
    /\ Len(file.ome[2].TiffData) # Len(file.ome[1].TiffData)

\* C14 as stated: an image whose number of references differs from the
\* product SizeC x SizeT x SizeZ makes the construction fail.
C14_Original ==
    (/\ Opened
     /\ file.kind = "ome"
     /\ \E i \in 1..Len(file.ome) :
           Len(file.ome[i].TiffData) # Product(file.ome[1]))
    => ~src.ok

\* directory n has the tile size of the source
CanonicalTiles(n) ==
    /\ Dir(file, n).tileWidth = src.tileWidth
    /\ Dir(file, n).tileHeight = src.tileHeight

\* C15: in a constructed pyramid every directory that populates a level, and
\* every directory of the per-frame table that opens, has the tile width and
\* height of the source.
C15_UniformTileSize ==
    (Opened /\ src.ok) =>
        /\ \A l \in 1..src.levels :
              src.tiffDirectories[l] # NoDir =>
                 CanonicalTiles(src.tiffDirectories[l])
        /\ \A l \in 1..Len(src.omeLevels) : \A i \in 1..Len(src.omeLevels[l]) :
              TiledTiffDirectory(file, src.omeLevels[l][i]) = "ok" =>
                 CanonicalTiles(src.omeLevels[l][i])

(***************************************************************************)
(* The power-of-two tolerance of the pyramid loop.                         *)
(***************************************************************************)
\* the cataloged directories with the tile size of the canonical one
SameTiles(f) ==
    {tdir \in Range(Alldir(f)) :
        /\ Dir(f, tdir[4]).tileWidth = Dir(f, Highest(f)).tileWidth
        /\ Dir(f, tdir[4]).tileHeight = Dir(f, Highest(f)).tileHeight}

\* the directory of entry tdir is w by h pixels, the canonical one W by H
Sized(f, tdir, w, h, W, H) ==
    /\ Dir(f, tdir[4]).imageWidth = w
    /\ Dir(f, tdir[4]).imageHeight = h
    /\ Dir(f, Highest(f)).imageWidth = W
    /\ Dir(f, Highest(f)).imageHeight = H

\* the pyramid has a directory at the level of entry tdir
LevelFilled(tdir) == src.ok => src.tiffDirectories[tdir[2] + 1] # NoDir

\* the directory of entry tdir is in the pyramid
InPyramid(tdir) ==
    \E l \in 1..Len(src.tiffDirectories) : src.tiffDirectories[l] = tdir[4]

\* C16 as amended: among the directories with the canonical tile size, one of
\* half the canonical size is accepted one level below the canonical one and
\* one of half the canonical size less one pixel is accepted; one whose width
\* is no power-of-two fraction of the canonical width is rejected when its
\* width is no multiple of the tile width, and accepted when it is one (its
\* height passing the same test).
C16_PowerOfTwoTolerance ==
    (Opened /\ file.kind = "tiff" /\ Len(Alldir(file)) > 0) =>
        \A tdir \in SameTiles(file) :
           LET td == Dir(file, tdir[4])
               highest == Dir(file, Highest(file))
           IN /\ (2 * td.imageWidth = highest.imageWidth
                  /\ 2 * td.imageHeight = highest.imageHeight) =>
                    /\ Accepted(file, tdir)
                    /\ tdir[2] = src.levels - 2 \/ ~src.ok
                    /\ LevelFilled(tdir)
              /\ (2 * (td.imageWidth + 1) = highest.imageWidth
                  /\ 2 * (td.imageHeight + 1) = highest.imageHeight) =>
                    /\ Accepted(file, tdir)
                    /\ LevelFilled(tdir)
              /\ (~nearPowerOfTwo(td.imageWidth, highest.imageWidth)
                  /\ td.imageWidth % td.tileWidth # 0) =>
                    /\ ~Accepted(file, tdir)
                    /\ ~InPyramid(tdir)
              /\ (~nearPowerOfTwo(td.imageWidth, highest.imageWidth)
                  /\ td.imageWidth % td.tileWidth = 0
                  /\ td.imageHeight % td.tileHeight = 0) =>
                    /\ Accepted(file, tdir)
                    /\ LevelFilled(tdir)

\* under a canonical directory of 32 by 32 pixels a directory of 11 by 11
\* pixels was left out and one of 12 by 12 pixels populates its level
C16_Witness ==
    /\ Opened
    /\ file.kind = "tiff"
    /\ src.ok
    /\ Len(Alldir(file)) > 0
    /\ \E tdir \in SameTiles(file) :
          /\ Sized(file, tdir, 11, 11, 32, 32)
          /\ ~InPyramid(tdir)
    /\ \E tdir \in SameTiles(file) :
          /\ Sized(file, tdir, 12, 12, 32, 32)
          /\ InPyramid(tdir)

\* C16 as stated: a directory whose width is no power-of-two fraction of the
\* canonical width is rejected, also when its width is a multiple of the
\* tile width.
C16_Original ==
    (Opened /\ file.kind = "tiff" /\ src.ok) =>
        \A tdir \in SameTiles(file) :
           ~nearPowerOfTwo(Dir(file, tdir[4]).imageWidth,
                           Dir(file, Highest(file)).imageWidth)
              => ~InPyramid(tdir)

\* C17: the catalog of a TIFF file keeps every directory that opens with
\* tileWidth > 0 and tileHeight > 0, at level
\* max(0, ceil(log2(max(width/tileWidth, height/tileHeight)))): a directory
\* of at most half a tile in both dimensions is kept at level 0.
C17_CatalogKeepsEveryTiledDirectory ==
    (Opened /\ file.kind = "tiff") =>
        \A n \in 0..(FirstHardError(file) - 1) :
           (/\ TiledTiffDirectory(file, n) = "ok"
            /\ Dir(file, n).tileWidth > 0
            /\ Dir(file, n).tileHeight > 0)
           => \E tdir \in Range(Alldir(file)) :
                 /\ tdir[4] = n
                 /\ tdir[2] = Max(0, LevelOf(Dir(file, n).imageWidth,
                                             Dir(file, n).imageHeight,
                                             Dir(file, n).tileWidth,
                                             Dir(file, n).tileHeight))

(***************************************************************************)
(* Reconstruction of a tile of an absent level.                            *)
(***************************************************************************)
\* the nearest populated level above z
NearestAbove(z) == MinOf({l \in (z + 1)..(src.levels - 1) : Populated(l)})

\* tile (tx, ty) of level z starts inside the image of sizeX by sizeY pixels
\* scaled to that level
InExtent(tx, ty, z) ==
    /\ tx * src.tileWidth * Pow2(src.levels - 1 - z) < src.sizeX
    /\ ty * src.tileHeight * Pow2(src.levels - 1 - z) < src.sizeY

\* the sub-tiles (i, j) of the block of the last request that lie inside the
\* extent, and those the reconstruction fetches: sub-tile (0, 0) always
InsideSubTiles ==
    LET z1 == NearestAbove(req.z)
        scale == Pow2(z1 - req.z)
    IN {ij \in (0..(scale - 1)) \X (0..(scale - 1)) :
           InExtent(req.x * scale + ij[1], req.y * scale + ij[2], z1)}

WantedSubTiles == InsideSubTiles \cup {<<0, 0>>}

\* the last call ran getTileFromEmptyDirectory (tiff.py:204-207)
Reconstructing == Called /\ Absent(req.z) /\ ~req.sparseFallback

\* C18 as amended: a tile reconstructed for (x, y) of an absent level z is
\* made at the nearest populated level z' above z with scale 2^(z'-z), from
\* the sub-tiles (x*scale+i, y*scale+j) of level z' for (i, j) = (0, 0) and
\* for exactly the other (i, j) of the block that lie inside the extent, in
\* the order of the loops; when every one of these backend reads succeeds the
\* call returns the reconstruction of these raw tiles.
C18_Reconstruction ==
    (Reconstructing /\ InLevels(req.z)) =>
        LET z1 == NearestAbove(req.z)
            scale == Pow2(z1 - req.z)
        IN /\ z1 <= src.levels - 1
           /\ res.ok =>
                 /\ res.tile.t = "recon"
                 /\ res.tile.z = z1
                 /\ res.tile.scale = scale
                 /\ {<<res.tile.subs[k][1], res.tile.subs[k][2]>> :
                        k \in 1..Len(res.tile.subs)} = WantedSubTiles
                 /\ \A k \in 1..(Len(res.tile.subs) - 1) :
                       res.tile.subs[k][1] * scale + res.tile.subs[k][2]
                          < res.tile.subs[k + 1][1] * scale + res.tile.subs[k + 1][2]
           /\ (/\ BackendSound
               /\ FrameInRange(req.frame)
               /\ \A ij \in WantedSubTiles :
                     DirGetTile(DirRead(z1, req.frame),
                                Whole(req.x * scale + ij[1]),
                                Whole(req.y * scale + ij[2])) = "ok")
              => /\ res.ok
                 /\ \A k \in 1..Len(res.tile.subs) :
                       res.tile.subs[k][3] =
                          Raw(DirRead(z1, req.frame),
                              Whole(req.x * scale + res.tile.subs[k][1]),
                              Whole(req.y * scale + res.tile.subs[k][2]))

\* a tile was reconstructed across a gap of two levels from a block of which
\* some sub-tiles lie outside the extent
C18_Witness ==
    /\ Reconstructing
    /\ InLevels(req.z)
    /\ res.ok
    /\ res.tile.scale = 4
    /\ Len(res.tile.subs) > 1
    /\ Len(res.tile.subs) < 16

\* C18 as stated: the sub-tiles fetched are exactly those inside the extent,
\* so that a block that lies outside the extent altogether is reconstructed
\* from no sub-tile at all.
C18_Original ==
    (Reconstructing /\ InLevels(req.z) /\ InsideSubTiles = {}) =>
        /\ res.ok
        /\ res.tile.subs = <<>>

====
